---- MODULE Spec2Model ----
(***************************************************************************)
(* Session controller of the markdown editor (js/app.js, js/storage.js,    *)
(* js/markdown.js): the edit buffer, the debounced preview, the debounced  *)
(* autosave, the save modal and the unsaved-changes confirm dialog.        *)
(*                                                                         *)
(* The browser runs one task at a time.  A step of the model is one task:  *)
(* an event handler up to its first real suspension (a timer, an IndexedDB *)
(* transaction, a mermaid layout), or the continuation after one.          *)
(*                                                                         *)
(* The program has three groups of variables that never read each other    *)
(* except through the buffer:                                              *)
(*   preview   debounceTimer, previewTimers, previewGeneration, renders,   *)
(*             preview                                                     *)
(*   autosave  saveTimeout, autosaveTx, autosaveStore                      *)
(*   session   currentDocId, lastSavedContent, pendingOpenDoc, the modals  *)
(*             and busy flags, the in-flight document transactions and     *)
(*             the documents store                                         *)
(* SpecPreview, SpecAutosave and Spec each run the handlers on one group;  *)
(* a handler's assignments to another group are left out of that           *)
(* specification only, and are stated in the slice of the other one.       *)
(* SpecApp runs editing, navigation and deletion with all their statements *)
(* on the three groups together with the autosave; SpecSettling runs the   *)
(* two save handlers with store calls that settle eventually.              *)
(* SpecStartup begins at loadContent() with a database an earlier session  *)
(* left; SpecAsIs runs navigation against the js/storage.js of the         *)
(* repository, which has no cancelPendingAutosave.                         *)
(* SpecAutosaveFair is the autosave with timers that fire and writes that  *)
(* commit; SpecRename adds the rename of a stored document to the confirm  *)
(* dialog; SpecTitle runs Save & Open together with the preview it reads   *)
(* the title from; SpecStore calls the documents API of js/storage.js on   *)
(* its own.                                                                *)
(***************************************************************************)
EXTENDS Integers, FiniteSets, Sequences, TLC

VARIABLES
    buffer,             \* editor.value
    debounceTimer,      \* app.js debounceTimer: a timer handle, 0 for null
    previewTimers,      \* the preview timers set and not yet fired or cleared
    previewGeneration,  \* app.js previewGeneration
    renders,            \* updatePreview calls suspended in MarkdownParser.parse
    preview,            \* the #preview element's content
    saveTimeout,        \* storage.js saveTimeout: a timer handle, 0 for null
    autosaveTimers,     \* the autosave timers set and not yet fired or cleared
    autosaveTx,         \* autosaveSave transactions not yet settled
    autosaveStore,      \* the records of the 'autosave' object store
    lastNavigation,     \* history: what the last load or reset found, until the next input
    currentDocId,       \* app.js currentDocId, 0 for null
    lastSavedContent,   \* app.js lastSavedContent
    pendingOpenDoc,     \* app.js pendingOpenDoc
    confirmModal,       \* TRUE when #confirm-modal is shown
    saveModal,          \* TRUE when #save-modal is shown
    saveBusy,           \* app.js saveBusy
    confirmBusy,        \* app.js confirmBusy
    storeCalls,         \* the calls on the 'documents' store not yet settled, oldest first
    documents,          \* the records of the 'documents' object store
    nextId,             \* the key generator of the 'documents' object store
    lastStep            \* history: what the last step did

previewVars == <<debounceTimer, previewTimers, previewGeneration, renders, preview>>
autosaveVars == <<saveTimeout, autosaveTimers, autosaveTx, autosaveStore, lastNavigation>>
sessionVars == <<currentDocId, lastSavedContent, pendingOpenDoc, confirmModal,
                 saveModal, saveBusy, confirmBusy, storeCalls, documents,
                 nextId, lastStep>>
vars == <<buffer, previewVars, autosaveVars, sessionVars>>

\* The session variables without the history.
sessionState == <<currentDocId, lastSavedContent, pendingOpenDoc, confirmModal,
                  saveModal, saveBusy, confirmBusy, storeCalls, documents, nextId>>

----------------------------------------------------------------------------
(* Bounds of the model *)

\* Preview renders started in one behaviour (previewGeneration is unbounded).
MaxGeneration == 4
\* Timers of one kind that are set at the same time.
MaxTimers == 2
\* Autosave transactions opened and not yet settled.
MaxInFlight == 2
\* Records the documents store is asked to add in one behaviour (its key
\* generator is unbounded).
MaxDocs == 2
\* Calls on the documents store suspended at once.
MaxCalls == 2

----------------------------------------------------------------------------
(* Texts *)

\* app.js sampleMarkdown: a heading, a javascript code block, a mermaid diagram.
sampleMarkdown == "sample"

\* The texts the user types or stores: the empty text, the sample, a text with
\* a mermaid diagram, no heading and no code block.
Contents == {"", sampleMarkdown, "diagram"}

\* marked's renderer emits a div.mermaid for the text (markdown.js renderer).
HasMermaid(content) == content \in {sampleMarkdown, "diagram"}

\* marked's renderer emits a code block Prism highlights.
HasCode(content) == content = sampleMarkdown

NoTimer == 0
TimerIds == 1..(MaxTimers + 1)

\* A timer handle setTimeout has not handed out among the live ones: handles are
\* only compared for identity, so the smallest free one stands for a fresh one.
FreshTimer(live) == CHOOSE t \in TimerIds : t \notin live /\ \A u \in TimerIds : u < t => u \in live

----------------------------------------------------------------------------
(* Preview: js/app.js updatePreview, debouncedUpdatePreview, switchTab and  *)
(* js/markdown.js parse                                                     *)

\* preview.innerHTML = '<p class="error">Preview error occurred.</p>'
ErrorMarkup == [html |-> "error", generation |-> 0, diagram |-> "none", highlighted |-> TRUE]

\* container.innerHTML = html in parse: the markup of content, its diagram not
\* yet drawn and its code not yet highlighted.
ParsedMarkup(content, generation) ==
    [html |-> content,
     generation |-> generation,
     diagram |-> IF HasMermaid(content) THEN "pending" ELSE "none",
     highlighted |-> ~HasCode(content)]

\* element.innerHTML = svg (or the diagram error) in renderMermaid, on the
\* elements parse call `generation` put in the container: they are still in
\* the document only if no later innerHTML assignment replaced them.
DrawDiagram(surface, generation, outcome) ==
    IF surface.generation = generation /\ surface.diagram = "pending"
    THEN [surface EXCEPT !.diagram = outcome]
    ELSE surface

\* Prism.highlightAllUnder(container): highlights whatever the container holds.
HighlightCode(surface) == [surface EXCEPT !.highlighted = TRUE]

\* A version of the catch block of updatePreview without the generation test.
CatchRenderErrorUnchecked(surface, generation, current) == ErrorMarkup

\* The state of the preview after the catch block of updatePreview.
CatchRenderError(surface, generation, current) ==
    IF generation # current THEN surface ELSE ErrorMarkup

\* History: what a step that ran updatePreview to a suspension or to its end
\* did with the render of `generation`, `current` being previewGeneration.
RenderStep(suspended, throws, generation, current) ==
    IF suspended THEN "renderSuspended"
    ELSE IF ~throws THEN "rendered"
    ELSE IF generation = current THEN "renderFailed"
    ELSE "staleRenderFailed"

\* A version of updatePreview that captures previewGeneration without
\* incrementing it.
updatePreviewReusesGeneration(content, fromTimer, throws) ==
    LET generation == previewGeneration IN
    /\ previewGeneration' = generation
    /\ IF HasMermaid(content) /\ ~throws
       THEN /\ preview' = ParsedMarkup(content, generation)
            /\ renders' = renders \cup {[generation |-> generation, fromTimer |-> fromTimer]}
       ELSE /\ preview' = IF throws
                          THEN CatchRenderError(preview, generation, generation)
                          ELSE HighlightCode(ParsedMarkup(content, generation))
            /\ renders' = renders

\* updatePreview up to the suspension in parse (await mermaid.render), or to
\* its end when the text has no diagram. `throws` is whether the renderer
\* rejects (marked.parse or Prism throwing).
updatePreview(content, fromTimer, throws) ==
    LET generation == previewGeneration + 1 IN
    /\ previewGeneration' = generation
    /\ IF HasMermaid(content) /\ ~throws
       THEN /\ preview' = ParsedMarkup(content, generation)
            /\ renders' = renders \cup {[generation |-> generation, fromTimer |-> fromTimer]}
       ELSE /\ preview' = IF throws
                          THEN CatchRenderError(preview, generation, generation)
                          ELSE HighlightCode(ParsedMarkup(content, generation))
            /\ renders' = renders

\* debouncedUpdatePreview: clearTimeout(debounceTimer) if set, then setTimeout.
debouncedUpdatePreview ==
    LET kept == previewTimers \ {debounceTimer}
        t == FreshTimer(kept \cup {debounceTimer})
    IN /\ Cardinality(kept) < MaxTimers
       /\ previewTimers' = kept \cup {t}
       /\ debounceTimer' = t

\* handleEditorInput after the user changed the text to `text`: the preview part.
EditorInputPreview(text) ==
    /\ text # buffer
    /\ buffer' = text
    /\ debouncedUpdatePreview
    /\ lastStep' = "edited"
    /\ UNCHANGED <<previewGeneration, renders, preview>>
    /\ UNCHANGED <<autosaveVars, sessionState>>

\* The callback of a preview timer: await updatePreview(); debounceTimer = null.
\* The assignment runs in the same task when the render does not suspend.
PreviewTimerFires(t, throws) ==
    /\ t \in previewTimers
    /\ previewGeneration < MaxGeneration
    /\ previewTimers' = previewTimers \ {t}
    /\ updatePreview(buffer, TRUE, throws)
    /\ debounceTimer' = IF HasMermaid(buffer) /\ ~throws THEN debounceTimer ELSE NoTimer
    /\ lastStep' = RenderStep(HasMermaid(buffer) /\ ~throws, throws,
                              previewGeneration', previewGeneration')
    /\ UNCHANGED <<buffer, autosaveVars, sessionState>>

\* switchTab('preview'): updatePreview(), not awaited.
SwitchTabPreview(throws) ==
    /\ previewGeneration < MaxGeneration
    /\ updatePreview(buffer, FALSE, throws)
    /\ lastStep' = RenderStep(HasMermaid(buffer) /\ ~throws, throws,
                              previewGeneration', previewGeneration')
    /\ UNCHANGED <<buffer, debounceTimer, previewTimers, autosaveVars, sessionState>>

\* A version of loadDocument and resetToNewDocument without updatePreview().
NavigatePreviewSkipsRender(content, throws) ==
    /\ previewGeneration < MaxGeneration
    /\ buffer' = content
    /\ lastStep' = "loaded"
    /\ UNCHANGED <<previewVars, autosaveVars, sessionState>>

\* loadDocument(doc) and resetToNewDocument() (content = ""), the preview part:
\* editor.value = content; updatePreview(), not awaited.
NavigatePreview(content, throws) ==
    /\ previewGeneration < MaxGeneration
    /\ buffer' = content
    /\ updatePreview(content, FALSE, throws)
    /\ lastStep' = "loaded"
    /\ UNCHANGED <<debounceTimer, previewTimers, autosaveVars, sessionState>>

\* A suspended render resumes after mermaid.render settled: the diagram (or its
\* error) goes into the element, highlightCode runs on the container, parse
\* returns, or Prism throws and the catch block of updatePreview runs.
RenderResumes(r, outcome, throws) ==
    /\ r \in renders
    /\ renders' = renders \ {r}
    /\ LET drawn == DrawDiagram(preview, r.generation, outcome) IN
       preview' = IF throws
                  THEN CatchRenderError(drawn, r.generation, previewGeneration)
                  ELSE HighlightCode(drawn)
    /\ debounceTimer' = IF r.fromTimer THEN NoTimer ELSE debounceTimer
    /\ lastStep' = RenderStep(FALSE, throws, r.generation, previewGeneration)
    /\ UNCHANGED <<buffer, previewTimers, previewGeneration, autosaveVars, sessionState>>

----------------------------------------------------------------------------
(* Autosave: js/storage.js autosaveSave, debouncedSave and the calls of     *)
(* js/app.js handleEditorInput, loadDocument, resetToNewDocument.           *)
(* The fields `replaced`, `atFire`, `atCommit` and the variable             *)
(* lastNavigation are history: they record whether the buffer a content was *)
(* taken from has been replaced as a whole since, and are read by no action.*)

AUTOSAVE_KEY == "current"

\* A version of autosaveSave that keys the record by its content.
autosavePutAppends(store, tx) ==
    store \cup {[id |-> tx.content, content |-> tx.content,
                 atFire |-> tx.atFire, atCommit |-> tx.replaced]}

\* store.put({id: AUTOSAVE_KEY, content, updatedAt}) committed: put replaces
\* the record of the same key.
autosavePut(store, tx) ==
    {r \in store : r.id # AUTOSAVE_KEY}
        \cup {[id |-> AUTOSAVE_KEY, content |-> tx.content,
               atFire |-> tx.atFire, atCommit |-> tx.replaced]}

\* A version of debouncedSave without the clearTimeout.
debouncedSaveKeepsTimer(content) ==
    LET id == FreshTimer({t.id : t \in autosaveTimers} \cup {saveTimeout})
    IN /\ Cardinality(autosaveTimers) < MaxTimers
       /\ autosaveTimers' = autosaveTimers \cup {[id |-> id, content |-> content, replaced |-> FALSE]}
       /\ saveTimeout' = id

\* debouncedSave(content): clearTimeout(saveTimeout) if set, then setTimeout
\* of a callback that holds `content`.
debouncedSave(content) ==
    LET kept == {t \in autosaveTimers : t.id # saveTimeout}
        id == FreshTimer({t.id : t \in kept} \cup {saveTimeout})
    IN /\ Cardinality(kept) < MaxTimers
       /\ autosaveTimers' = kept \cup {[id |-> id, content |-> content, replaced |-> FALSE]}
       /\ saveTimeout' = id

\* Storage.cancelPendingAutosave(): if (saveTimeout) { clearTimeout(saveTimeout);
\* saveTimeout = null; }.  The storage.js found under src/ predates the method;
\* app.js calls it and docs/solutions records this body.
cancelPendingAutosave(timers, handle) ==
    [timers |-> {t \in timers : t.id # handle}, handle |-> NoTimer]

\* A version of loadDocument that does not cancel the pending autosave.
loadDocumentKeepsAutosave(timers, handle) ==
    [timers |-> timers, handle |-> handle]

\* The first statement of loadDocument and of resetToNewDocument.
loadDocumentCancels(timers, handle) == cancelPendingAutosave(timers, handle)

\* handleEditorInput after the user changed the text to `text`: the autosave part.
EditorInputAutosave(text) ==
    /\ text # buffer
    /\ buffer' = text
    /\ debouncedSave(text)
    /\ lastNavigation' = "none"
    /\ UNCHANGED <<autosaveTx, autosaveStore>>
    /\ UNCHANGED <<previewVars, sessionVars>>

\* loadDocument(doc) and resetToNewDocument() (content = ""), the autosave part:
\* Storage.cancelPendingAutosave(); editor.value = content.
NavigateAutosave(content) ==
    LET after == loadDocumentCancels(autosaveTimers, saveTimeout) IN
    /\ buffer' = content
    /\ autosaveTimers' = {[t EXCEPT !.replaced = TRUE] : t \in after.timers}
    /\ saveTimeout' = after.handle
    /\ autosaveTx' = [i \in DOMAIN autosaveTx |-> [autosaveTx[i] EXCEPT !.replaced = TRUE]]
    /\ lastNavigation' = IF saveTimeout # NoTimer THEN "armed" ELSE "idle"
    /\ UNCHANGED autosaveStore
    /\ UNCHANGED <<previewVars, sessionVars>>

\* A version of the timer callback that does not call autosaveSave.
AutosaveTimerFiresSkipsWrite(t) ==
    /\ t \in autosaveTimers
    /\ autosaveTimers' = autosaveTimers \ {t}
    /\ saveTimeout' = NoTimer
    /\ UNCHANGED <<buffer, autosaveTx, autosaveStore, lastNavigation, previewVars, sessionVars>>

\* The callback of an autosave timer: autosaveSave(content) opens a readwrite
\* transaction and puts the record; saveTimeout = null.
AutosaveTimerFires(t) ==
    /\ t \in autosaveTimers
    /\ Len(autosaveTx) < MaxInFlight
    /\ autosaveTimers' = autosaveTimers \ {t}
    /\ autosaveTx' = Append(autosaveTx,
                            [content |-> t.content, atFire |-> t.replaced, replaced |-> t.replaced])
    /\ saveTimeout' = NoTimer
    /\ UNCHANGED <<buffer, autosaveStore, lastNavigation, previewVars, sessionVars>>

\* The oldest autosave transaction completes (readwrite transactions on one
\* store run in the order they were opened) or fails (tx.onerror: the promise
\* rejects and debouncedSave logs a warning).
AutosaveTxSettles(ok) ==
    /\ autosaveTx # <<>>
    /\ autosaveTx' = Tail(autosaveTx)
    /\ autosaveStore' = IF ok THEN autosavePut(autosaveStore, Head(autosaveTx)) ELSE autosaveStore
    /\ UNCHANGED <<buffer, saveTimeout, autosaveTimers, lastNavigation, previewVars, sessionVars>>

----------------------------------------------------------------------------
(* Documents store: js/storage.js saveDocument, updateDocument, getDocument,*)
(* deleteDocument.  A record is [id, title, content]; createdAt and         *)
(* updatedAt order the sidebar list only and are left out.                  *)

NoDoc == 0

Found(store, id) == \E d \in store : d.id = id

\* store.add of a record whose key the store's generator hands out.
saveDocument(store, id, title, content) ==
    store \cup {[id |-> id, title |-> title, content |-> content]}

\* A version of updateDocument that puts the content and keeps the title.
updateDocumentKeepsTitle(store, id, title, content) ==
    {d \in store : d.id # id}
        \cup {[id |-> id, title |-> d.title, content |-> content] : d \in {e \in store : e.id = id}}

\* store.get(id), then store.put of the record with the new title and content.
\* Called with Found(store, id): otherwise the promise rejects.
updateDocument(store, id, title, content) ==
    {d \in store : d.id # id} \cup {[id |-> id, title |-> title, content |-> content]}

\* request.result || null
getDocument(store, id) ==
    IF Found(store, id) THEN CHOOSE d \in store : d.id = id ELSE [id |-> NoDoc]

deleteDocument(store, id) == {d \in store : d.id # id}

----------------------------------------------------------------------------
(* Session: js/app.js hasUnsavedChanges, requestOpenDocument,               *)
(* requestNewDocument, loadDocument, resetToNewDocument, the save modal and *)
(* the confirm modal                                                        *)

\* The texts the user leaves in the editor between two session steps.
Drafts == {"", sampleMarkdown}

\* The titles typed into #doc-title-input.
Titles == {"Notes"}

\* pendingOpenDoc: null, the string 'new', or a document record, of which
\* loadDocument reads the id and the content.
NoPending == [kind |-> "null"]
NewPending == [kind |-> "new"]
DocPending(doc) == [kind |-> "doc", id |-> doc.id, content |-> doc.content]

hasUnsavedChanges == buffer # lastSavedContent

\* The two dialogs cover the page: the sidebar, the header buttons and the
\* document list are not clickable while one of them is shown.  The keyboard
\* still reaches the editor and the Ctrl/Cmd+S shortcut.
NoDialog == ~saveModal /\ ~confirmModal

\* getAutoTitle(): the first heading of the preview, else the first non-blank
\* line of the editor without its leading #s, else 'Untitled'.  `shown` is the
\* text whose markup the preview holds, "error" for the error markup.
FirstHeading(shown) == IF shown = sampleMarkdown THEN "Markdown to HTML Converter" ELSE ""
FirstLine(text) ==
    CASE text = sampleMarkdown -> "Markdown to HTML Converter"
      [] text = "diagram" -> "(mermaid fence)"
      [] OTHER -> ""
getAutoTitle(shown, text) ==
    IF FirstHeading(shown) # "" THEN FirstHeading(shown)
    ELSE IF FirstLine(text) # "" THEN FirstLine(text)
    ELSE "Untitled"

\* A version of loadDocument that leaves lastSavedContent as it was.
loadDocumentKeepsSaved(doc) ==
    /\ buffer' = doc.content
    /\ currentDocId' = doc.id
    /\ lastSavedContent' = lastSavedContent

\* loadDocument(doc), the session part.
loadDocument(doc) ==
    /\ buffer' = doc.content
    /\ currentDocId' = doc.id
    /\ lastSavedContent' = doc.content

\* A version of resetToNewDocument that keeps the binding.
resetToNewDocumentKeepsId ==
    /\ buffer' = ""
    /\ currentDocId' = currentDocId
    /\ lastSavedContent' = ""

\* resetToNewDocument(), the session part.
resetToNewDocument ==
    /\ buffer' = ""
    /\ currentDocId' = NoDoc
    /\ lastSavedContent' = ""

\* openPendingDoc() called with currentDocId and lastSavedContent holding
\* `id` and `saved`.
openPendingDoc(id, saved) ==
    /\ IF pendingOpenDoc = NewPending THEN resetToNewDocument
       ELSE IF pendingOpenDoc # NoPending THEN loadDocument(pendingOpenDoc)
       ELSE /\ buffer' = buffer
            /\ currentDocId' = id
            /\ lastSavedContent' = saved
    /\ pendingOpenDoc' = NoPending

\* handleEditorInput after the user changed the text to `text`: the session
\* part (the handler itself touches the preview and the autosave only).
EditorInput(text) ==
    /\ text # buffer
    /\ buffer' = text
    /\ lastStep' = "edited"
    /\ UNCHANGED <<currentDocId, lastSavedContent, pendingOpenDoc, confirmModal, saveModal,
                   saveBusy, confirmBusy, storeCalls, documents, nextId>>
    /\ UNCHANGED <<previewVars, autosaveVars>>

\* A store call a handler is suspended in.  `bound` (history) is currentDocId
\* when Save & Open was clicked, `retried` (history) whether a second trigger
\* found the handler busy.
Call(handler, stage, id, title, content) ==
    [handler |-> handler, stage |-> stage, id |-> id, title |-> title, content |-> content,
     bound |-> IF handler = "confirm" THEN currentDocId ELSE NoDoc, retried |-> FALSE]

\* Whether the oldest suspended call is of `handler`: the transactions on the
\* documents store run in the order they were created.
HeadIs(handler) == storeCalls # <<>> /\ Head(storeCalls).handler = handler

\* A click on the document `id` of the sidebar list (which may be stale), up
\* to the await of Storage.getAllDocuments().
DocListClick(id) ==
    /\ NoDialog
    /\ id \in 1..(nextId - 1)
    /\ Len(storeCalls) < MaxCalls
    /\ storeCalls' = Append(storeCalls, Call("open", "getAll", id, "", ""))
    /\ lastStep' = "other"
    /\ UNCHANGED <<buffer, currentDocId, lastSavedContent, pendingOpenDoc, confirmModal,
                   saveModal, saveBusy, confirmBusy, documents, nextId>>
    /\ UNCHANGED <<previewVars, autosaveVars>>

\* getAllDocuments() resolves for a click on the list: the record is looked
\* up by id and, if it is there, requestOpenDocument(doc) runs.
RequestOpenDocument ==
    /\ HeadIs("open")
    /\ storeCalls' = Tail(storeCalls)
    /\ LET doc == getDocument(documents, Head(storeCalls).id) IN
       IF doc.id = NoDoc
       THEN /\ lastStep' = "other"
            /\ UNCHANGED <<buffer, currentDocId, lastSavedContent, pendingOpenDoc, confirmModal>>
       ELSE IF hasUnsavedChanges
       THEN /\ pendingOpenDoc' = DocPending(doc)
            /\ confirmModal' = TRUE
            /\ lastStep' = "other"
            /\ UNCHANGED <<buffer, currentDocId, lastSavedContent>>
       ELSE /\ loadDocument(doc)
            /\ lastStep' = "loaded"
            /\ UNCHANGED <<pendingOpenDoc, confirmModal>>
    /\ UNCHANGED <<saveModal, saveBusy, confirmBusy, documents, nextId>>
    /\ UNCHANGED <<previewVars, autosaveVars>>

\* getAllDocuments() rejects for a click on the list: nothing is opened.
DocListClickFails ==
    /\ HeadIs("open")
    /\ storeCalls' = Tail(storeCalls)
    /\ lastStep' = "other"
    /\ UNCHANGED <<buffer, currentDocId, lastSavedContent, pendingOpenDoc, confirmModal,
                   saveModal, saveBusy, confirmBusy, documents, nextId>>
    /\ UNCHANGED <<previewVars, autosaveVars>>

\* A version of requestNewDocument that does not consult hasUnsavedChanges().
RequestNewDocumentUnchecked ==
    /\ NoDialog
    /\ resetToNewDocument
    /\ lastStep' = "loaded"
    /\ UNCHANGED <<pendingOpenDoc, confirmModal>>
    /\ UNCHANGED <<saveModal, saveBusy, confirmBusy, storeCalls, documents, nextId>>
    /\ UNCHANGED <<previewVars, autosaveVars>>

\* requestNewDocument(): the New button of the sidebar.
RequestNewDocument ==
    /\ NoDialog
    /\ IF hasUnsavedChanges
       THEN /\ pendingOpenDoc' = NewPending
            /\ confirmModal' = TRUE
            /\ lastStep' = "other"
            /\ UNCHANGED <<buffer, currentDocId, lastSavedContent>>
       ELSE /\ resetToNewDocument
            /\ lastStep' = "loaded"
            /\ UNCHANGED <<pendingOpenDoc, confirmModal>>
    /\ UNCHANGED <<saveModal, saveBusy, confirmBusy, storeCalls, documents, nextId>>
    /\ UNCHANGED <<previewVars, autosaveVars>>

\* openSaveModal(): Ctrl/Cmd+S, or the save button when no dialog covers it.
OpenSaveModal ==
    /\ saveModal' = TRUE
    /\ lastStep' = "other"
    /\ UNCHANGED <<buffer, currentDocId, lastSavedContent, pendingOpenDoc, confirmModal,
                   saveBusy, confirmBusy, storeCalls, documents, nextId>>
    /\ UNCHANGED <<previewVars, autosaveVars>>

\* closeSaveModal(): the close and cancel buttons or Escape (none is disabled
\* while a save is under way).
CloseSaveModal ==
    /\ saveModal
    /\ saveModal' = FALSE
    /\ lastStep' = "other"
    /\ UNCHANGED <<buffer, currentDocId, lastSavedContent, pendingOpenDoc, confirmModal,
                   saveBusy, confirmBusy, storeCalls, documents, nextId>>
    /\ UNCHANGED <<previewVars, autosaveVars>>

\* The store call handleSaveConfirm suspends in: updateDocument when a
\* document is bound, saveDocument otherwise, with the content read before
\* the await.
SaveCall(title) ==
    Call("save", IF currentDocId # NoDoc THEN "update" ELSE "add", currentDocId, title, buffer)

\* A version of handleSaveConfirm without the `if (saveBusy) return`.
saveConfirmStartUnguarded(busy, calls, title) ==
    [busy |-> TRUE, calls |-> Append(calls, SaveCall(title))]

\* handleSaveConfirm() up to its await.  A trigger that finds saveBusy set
\* returns at once: `retried` records that one arrived.
saveConfirmStart(busy, calls, title) ==
    IF busy
    THEN [busy |-> busy,
          calls |-> [i \in DOMAIN calls |->
                        IF calls[i].handler = "save"
                        THEN [calls[i] EXCEPT !.retried = TRUE] ELSE calls[i]]]
    ELSE [busy |-> TRUE, calls |-> Append(calls, SaveCall(title))]

\* The confirm button of the save modal, or Enter in the title input (which
\* works while the button is disabled), with a non-blank `title` typed.
HandleSaveConfirm(title) ==
    /\ saveModal
    /\ saveBusy \/ Len(storeCalls) < MaxCalls
    /\ LET started == saveConfirmStart(saveBusy, storeCalls, title) IN
       /\ saveBusy' = started.busy
       /\ storeCalls' = started.calls
    /\ lastStep' = "other"
    /\ UNCHANGED <<buffer, currentDocId, lastSavedContent, pendingOpenDoc, confirmModal,
                   saveModal, confirmBusy, documents, nextId>>
    /\ UNCHANGED <<previewVars, autosaveVars>>

\* A version of handleSaveConfirm that leaves lastSavedContent as it was.
savedContentKept(call) == lastSavedContent

\* What handleSaveConfirm assigns to lastSavedContent after its await: the
\* content it read from the editor before the await.
savedContent(call) == call.content

\* A version of the save handlers without the finally block.
busyWithoutFinally(busy) == busy

\* The finally block of handleSaveConfirm and of handleConfirmSave: the busy
\* flag is cleared and the buttons are enabled on every way out of the try.
busyAfterFinally(busy) == FALSE

\* The store call of handleSaveConfirm resolves and the handler runs to its
\* end: currentDocId = newId after saveDocument, lastSavedContent = content,
\* closeSaveModal(), finally saveBusy = false.
SaveConfirmSucceeds ==
    /\ HeadIs("save")
    /\ LET call == Head(storeCalls) IN
       /\ IF call.stage = "add"
          THEN /\ nextId <= MaxDocs
               /\ documents' = saveDocument(documents, nextId, call.title, call.content)
               /\ nextId' = nextId + 1
               /\ currentDocId' = nextId
          ELSE /\ Found(documents, call.id)
               /\ documents' = updateDocument(documents, call.id, call.title, call.content)
               /\ UNCHANGED <<nextId, currentDocId>>
       /\ lastSavedContent' = savedContent(call)
    /\ saveModal' = FALSE
    /\ saveBusy' = busyAfterFinally(saveBusy)
    /\ storeCalls' = Tail(storeCalls)
    /\ lastStep' = "saved"
    /\ UNCHANGED <<buffer, pendingOpenDoc, confirmModal, confirmBusy>>
    /\ UNCHANGED <<previewVars, autosaveVars>>

\* A version of the save handlers that assigns lastSavedContent before the
\* store call has resolved.
lastSavedOptimistic(saved, call) == call.content

\* lastSavedContent after the store call of handleSaveConfirm or of
\* handleConfirmSave rejected: the assignment follows the await inside the
\* try block and is skipped.
lastSavedAfterReject(saved, call) == saved

\* The store call of handleSaveConfirm rejects (updateDocument always does
\* when the record is gone): the catch block reports, finally saveBusy = false.
SaveConfirmFails ==
    /\ HeadIs("save")
    /\ saveBusy' = busyAfterFinally(saveBusy)
    /\ storeCalls' = Tail(storeCalls)
    /\ lastSavedContent' = lastSavedAfterReject(lastSavedContent, Head(storeCalls))
    /\ lastStep' = "other"
    /\ UNCHANGED <<buffer, currentDocId, pendingOpenDoc, confirmModal,
                   saveModal, confirmBusy, documents, nextId>>
    /\ UNCHANGED <<previewVars, autosaveVars>>

\* The store call handleConfirmSave suspends in first: getDocument when a
\* document is bound, saveDocument otherwise, with the auto title and the
\* content read before the await.  `shown` is what the preview holds.
ConfirmCall(shown) ==
    Call("confirm", IF currentDocId # NoDoc THEN "get" ELSE "add",
         currentDocId, getAutoTitle(shown, buffer), buffer)

\* A version of handleConfirmSave without the `if (confirmBusy) return`.
confirmSaveStartUnguarded(busy, calls, call) ==
    [busy |-> TRUE, calls |-> Append(calls, call)]

\* handleConfirmSave() up to its first await.  A trigger that finds
\* confirmBusy set returns at once: `retried` records that one arrived.
confirmSaveStart(busy, calls, call) ==
    IF busy
    THEN [busy |-> busy,
          calls |-> [i \in DOMAIN calls |->
                        IF calls[i].handler = "confirm"
                        THEN [calls[i] EXCEPT !.retried = TRUE] ELSE calls[i]]]
    ELSE [busy |-> TRUE, calls |-> Append(calls, call)]

\* handleConfirmSave(): the Save & Open button.  The three buttons of the
\* dialog are disabled while confirmBusy; a trigger that reaches the handler
\* all the same meets its guard.
HandleConfirmSave(shown) ==
    /\ confirmModal
    /\ confirmBusy \/ Len(storeCalls) < MaxCalls
    /\ LET started == confirmSaveStart(confirmBusy, storeCalls, ConfirmCall(shown)) IN
       /\ confirmBusy' = started.busy
       /\ storeCalls' = started.calls
    /\ lastStep' = "other"
    /\ UNCHANGED <<buffer, currentDocId, lastSavedContent, pendingOpenDoc, confirmModal,
                   saveModal, saveBusy, documents, nextId>>
    /\ UNCHANGED <<previewVars, autosaveVars>>

\* What the catch block of handleConfirmSave leaves of the dialog and of the
\* pending target: closeConfirmModal(), and pendingOpenDoc as it is.
confirmSaveFailed(shownModal, pending) == [modal |-> FALSE, pending |-> pending]

\* Storage.getDocument(currentDocId) of handleConfirmSave resolves:
\* updateDocument(currentDocId, the record's title or the auto title, content)
\* is called, currentDocId being read again.
ConfirmSaveFetched ==
    /\ HeadIs("confirm")
    /\ Head(storeCalls).stage = "get"
    /\ LET call == Head(storeCalls)
           existingDoc == getDocument(documents, call.id)
       IN storeCalls' = Append(Tail(storeCalls),
                               [call EXCEPT
                                   !.stage = "update",
                                   !.id = currentDocId,
                                   !.title = IF existingDoc.id # NoDoc THEN existingDoc.title ELSE @])
    /\ lastStep' = "other"
    /\ UNCHANGED <<buffer, currentDocId, lastSavedContent, pendingOpenDoc, confirmModal,
                   confirmBusy, saveModal, saveBusy, documents, nextId>>
    /\ UNCHANGED <<previewVars, autosaveVars>>

\* The write of handleConfirmSave (saveDocument or updateDocument) resolves
\* and the handler runs to its end: lastSavedContent = content, finally,
\* closeConfirmModal(), openPendingDoc().
ConfirmSaveSucceeds ==
    /\ HeadIs("confirm")
    /\ LET call == Head(storeCalls) IN
       /\ IF call.stage = "add"
          THEN /\ nextId <= MaxDocs
               /\ documents' = saveDocument(documents, nextId, call.title, call.content)
               /\ nextId' = nextId + 1
               /\ openPendingDoc(nextId, call.content)
          ELSE /\ call.stage = "update"
               /\ Found(documents, call.id)
               /\ documents' = updateDocument(documents, call.id, call.title, call.content)
               /\ openPendingDoc(currentDocId, call.content)
               /\ UNCHANGED nextId
       /\ lastStep' = IF call.stage = "add" THEN "createdAndOpened" ELSE "savedAndOpened"
    /\ confirmModal' = FALSE
    /\ confirmBusy' = busyAfterFinally(confirmBusy)
    /\ storeCalls' = Tail(storeCalls)
    /\ UNCHANGED <<saveModal, saveBusy>>
    /\ UNCHANGED <<previewVars, autosaveVars>>

\* A store call of handleConfirmSave rejects: the catch block reports and
\* returns after the finally block.
ConfirmSaveFails ==
    /\ HeadIs("confirm")
    /\ LET failed == confirmSaveFailed(confirmModal, pendingOpenDoc) IN
       /\ confirmModal' = failed.modal
       /\ pendingOpenDoc' = failed.pending
    /\ confirmBusy' = busyAfterFinally(confirmBusy)
    /\ storeCalls' = Tail(storeCalls)
    /\ lastSavedContent' = lastSavedAfterReject(lastSavedContent, Head(storeCalls))
    /\ lastStep' = "openFailed"
    /\ UNCHANGED <<buffer, currentDocId, saveModal, saveBusy, documents, nextId>>
    /\ UNCHANGED <<previewVars, autosaveVars>>

\* A version of handleConfirmSave that leaves the dialog's buttons enabled.
confirmButtonsStayEnabled(busy) == FALSE

\* Whether the Discard and Cancel buttons are disabled: handleConfirmSave
\* disables them when it sets confirmBusy and its finally block enables them
\* when it clears confirmBusy. A disabled button dispatches no click.
confirmButtonsDisabled(busy) == busy

\* handleConfirmDiscard(): the Discard button, disabled while confirmBusy.
HandleConfirmDiscard ==
    /\ confirmModal
    /\ ~confirmButtonsDisabled(confirmBusy)
    /\ confirmModal' = FALSE
    /\ openPendingDoc(currentDocId, lastSavedContent)
    /\ lastStep' = "discarded"
    /\ UNCHANGED <<saveModal, saveBusy, confirmBusy, storeCalls, documents, nextId>>
    /\ UNCHANGED <<previewVars, autosaveVars>>

\* A version of handleConfirmCancel that only closes the dialog.
confirmCancelKeepsPending(pending) == pending

\* What handleConfirmCancel leaves in pendingOpenDoc.
confirmCancelPending(pending) == NoPending

\* handleConfirmCancel(): the Cancel button, disabled while confirmBusy.
HandleConfirmCancel ==
    /\ confirmModal
    /\ ~confirmButtonsDisabled(confirmBusy)
    /\ confirmModal' = FALSE
    /\ pendingOpenDoc' = confirmCancelPending(pendingOpenDoc)
    /\ lastStep' = "cancelled"
    /\ UNCHANGED <<buffer, currentDocId, lastSavedContent, saveModal, saveBusy, confirmBusy,
                   storeCalls, documents, nextId>>
    /\ UNCHANGED <<previewVars, autosaveVars>>

\* handleDeleteDocument(id) once the user confirmed, up to the await: the
\* delete button of a document of the sidebar list (which may be stale).
HandleDeleteDocument(id) ==
    /\ NoDialog
    /\ id \in 1..(nextId - 1)
    /\ Len(storeCalls) < MaxCalls
    /\ storeCalls' = Append(storeCalls, Call("delete", "delete", id, "", ""))
    /\ lastStep' = "other"
    /\ UNCHANGED <<buffer, currentDocId, lastSavedContent, pendingOpenDoc, confirmModal,
                   saveModal, saveBusy, confirmBusy, documents, nextId>>
    /\ UNCHANGED <<previewVars, autosaveVars>>

\* A version of handleDeleteDocument that unbinds the buffer and keeps
\* lastSavedContent.
afterDeleteKeepsSaved(saved) == [id |-> NoDoc, saved |-> saved]

\* A version of handleDeleteDocument that leaves the buffer bound.
afterDeleteKeepsBinding(saved) == [id |-> currentDocId, saved |-> ""]

\* The binding and lastSavedContent after the delete of the current document:
\* currentDocId = null; lastSavedContent = ''.
afterDeleteOfCurrent(saved) == [id |-> NoDoc, saved |-> ""]

\* Storage.deleteDocument(id) settles and handleDeleteDocument runs to its
\* end: a deleted current document leaves the buffer unbound.
DeleteDocumentSettles(ok) ==
    /\ HeadIs("delete")
    /\ storeCalls' = Tail(storeCalls)
    /\ LET id == Head(storeCalls).id
           after == afterDeleteOfCurrent(lastSavedContent)
       IN IF ok
          THEN /\ documents' = deleteDocument(documents, id)
               /\ IF currentDocId = id
                  THEN /\ currentDocId' = after.id
                       /\ lastSavedContent' = after.saved
                       /\ lastStep' = "deleted"
                  ELSE /\ UNCHANGED <<currentDocId, lastSavedContent>>
                       /\ lastStep' = "other"
          ELSE /\ UNCHANGED <<documents, currentDocId, lastSavedContent>>
               /\ lastStep' = "other"
    /\ UNCHANGED <<buffer, pendingOpenDoc, confirmModal, saveModal, saveBusy, confirmBusy,
                   nextId>>
    /\ UNCHANGED <<previewVars, autosaveVars>>

----------------------------------------------------------------------------
(* The handlers that replace or edit the buffer, with all their statements: *)
(* js/app.js handleEditorInput, loadDocument, resetToNewDocument and their  *)
(* callers.  SpecApp runs them together with the autosave timer and its     *)
(* transactions and with the deletion of documents.                         *)

\* A version of handleEditorInput that takes the text handed to the autosave
\* for saved.
savedFollowsInput(saved, text) == text

\* lastSavedContent after handleEditorInput: the handler hands the text to the
\* two debouncers and assigns nothing.
savedAfterInput(saved, text) == saved

\* handleEditorInput(): debouncedUpdatePreview(); Storage.debouncedSave(editor.value).
HandleEditorInput(text) ==
    /\ text # buffer
    /\ buffer' = text
    /\ debouncedUpdatePreview
    /\ debouncedSave(text)
    /\ lastNavigation' = "none"
    /\ lastSavedContent' = savedAfterInput(lastSavedContent, text)
    /\ lastStep' = "edited"
    /\ UNCHANGED <<previewGeneration, renders, preview, autosaveTx, autosaveStore>>
    /\ UNCHANGED <<currentDocId, pendingOpenDoc, confirmModal, saveModal,
                   saveBusy, confirmBusy, storeCalls, documents, nextId>>

\* Storage.cancelPendingAutosave() as the first statement of a load or a
\* reset; the transactions and timers that outlive it carry content of the
\* buffer that is being replaced.
CancelAutosaveOnLoad ==
    LET after == loadDocumentCancels(autosaveTimers, saveTimeout) IN
    /\ autosaveTimers' = {[t EXCEPT !.replaced = TRUE] : t \in after.timers}
    /\ saveTimeout' = after.handle
    /\ autosaveTx' = [i \in DOMAIN autosaveTx |-> [autosaveTx[i] EXCEPT !.replaced = TRUE]]
    /\ lastNavigation' = IF saveTimeout # NoTimer THEN "armed" ELSE "idle"
    /\ UNCHANGED autosaveStore

\* loadDocument(doc): cancelPendingAutosave, editor.value, currentDocId,
\* lastSavedContent, updatePreview() not awaited.
LoadDocument(doc, throws) ==
    /\ previewGeneration < MaxGeneration
    /\ CancelAutosaveOnLoad
    /\ loadDocument(doc)
    /\ updatePreview(doc.content, FALSE, throws)
    /\ UNCHANGED <<debounceTimer, previewTimers>>

\* resetToNewDocument(): the same with the empty text and no document.
ResetToNewDocument(throws) ==
    /\ previewGeneration < MaxGeneration
    /\ CancelAutosaveOnLoad
    /\ resetToNewDocument
    /\ updatePreview("", FALSE, throws)
    /\ UNCHANGED <<debounceTimer, previewTimers>>

\* openPendingDoc() called with currentDocId and lastSavedContent holding
\* `id` and `saved`.
OpenPendingDoc(id, saved, throws) ==
    /\ IF pendingOpenDoc = NewPending THEN ResetToNewDocument(throws)
       ELSE IF pendingOpenDoc # NoPending THEN LoadDocument(pendingOpenDoc, throws)
       ELSE /\ buffer' = buffer
            /\ currentDocId' = id
            /\ lastSavedContent' = saved
            /\ UNCHANGED <<previewVars, autosaveVars>>
    /\ pendingOpenDoc' = NoPending

\* getAllDocuments() resolves for a click on the list and requestOpenDocument(doc)
\* runs, if the record is there.
RequestOpenDocumentRuns(throws) ==
    /\ HeadIs("open")
    /\ storeCalls' = Tail(storeCalls)
    /\ LET doc == getDocument(documents, Head(storeCalls).id) IN
       IF doc.id = NoDoc
       THEN /\ lastStep' = "other"
            /\ UNCHANGED <<buffer, currentDocId, lastSavedContent, pendingOpenDoc, confirmModal>>
            /\ UNCHANGED <<previewVars, autosaveVars>>
       ELSE IF hasUnsavedChanges
       THEN /\ pendingOpenDoc' = DocPending(doc)
            /\ confirmModal' = TRUE
            /\ lastStep' = "other"
            /\ UNCHANGED <<buffer, currentDocId, lastSavedContent>>
            /\ UNCHANGED <<previewVars, autosaveVars>>
       ELSE /\ LoadDocument(doc, throws)
            /\ lastStep' = "loaded"
            /\ UNCHANGED <<pendingOpenDoc, confirmModal>>
    /\ UNCHANGED <<saveModal, saveBusy, confirmBusy, documents, nextId>>

\* requestNewDocument(): the New button of the sidebar.
RequestNewDocumentRuns(throws) ==
    /\ NoDialog
    /\ IF hasUnsavedChanges
       THEN /\ pendingOpenDoc' = NewPending
            /\ confirmModal' = TRUE
            /\ lastStep' = "other"
            /\ UNCHANGED <<buffer, currentDocId, lastSavedContent>>
            /\ UNCHANGED <<previewVars, autosaveVars>>
       ELSE /\ ResetToNewDocument(throws)
            /\ lastStep' = "loaded"
            /\ UNCHANGED <<pendingOpenDoc, confirmModal>>
    /\ UNCHANGED <<saveModal, saveBusy, confirmBusy, storeCalls, documents, nextId>>

\* handleConfirmDiscard(): closeConfirmModal(); openPendingDoc().
HandleConfirmDiscardRuns(throws) ==
    /\ confirmModal
    /\ ~confirmButtonsDisabled(confirmBusy)
    /\ confirmModal' = FALSE
    /\ OpenPendingDoc(currentDocId, lastSavedContent, throws)
    /\ lastStep' = "discarded"
    /\ UNCHANGED <<saveModal, saveBusy, confirmBusy, storeCalls, documents, nextId>>

----------------------------------------------------------------------------
(* The state after App.init() on an empty database: loadContent found no    *)
(* autosave record, so the editor holds the sample, and the first           *)
(* updatePreview has run to its end.                                        *)

InitPreview ==
    /\ debounceTimer = NoTimer
    /\ previewTimers = {}
    /\ previewGeneration = 1
    /\ renders = {}
    /\ preview = HighlightCode(DrawDiagram(ParsedMarkup(sampleMarkdown, 1), 1, "svg"))

InitAutosave ==
    /\ saveTimeout = NoTimer
    /\ autosaveTimers = {}
    /\ autosaveTx = <<>>
    /\ autosaveStore = {}
    /\ lastNavigation = "none"

InitSession ==
    /\ currentDocId = NoDoc
    /\ lastSavedContent = sampleMarkdown
    /\ pendingOpenDoc = NoPending
    /\ confirmModal = FALSE
    /\ saveModal = FALSE
    /\ saveBusy = FALSE
    /\ confirmBusy = FALSE
    /\ storeCalls = <<>>
    /\ documents = {}
    /\ nextId = 1
    /\ lastStep = "other"

Init ==
    /\ buffer = sampleMarkdown
    /\ InitPreview
    /\ InitAutosave
    /\ InitSession

Next ==
    \/ \E text \in Drafts : EditorInput(text)
    \/ \E id \in 1..MaxDocs : DocListClick(id)
    \/ RequestOpenDocument
    \/ DocListClickFails
    \/ RequestNewDocument
    \/ OpenSaveModal
    \/ CloseSaveModal
    \/ \E title \in Titles : HandleSaveConfirm(title)
    \/ SaveConfirmSucceeds
    \/ SaveConfirmFails
    \/ \E shown \in Contents \cup {"error"} : HandleConfirmSave(shown)
    \/ ConfirmSaveFetched
    \/ ConfirmSaveSucceeds
    \/ ConfirmSaveFails
    \/ HandleConfirmDiscard
    \/ HandleConfirmCancel
    \/ \E id \in 1..MaxDocs : HandleDeleteDocument(id)
    \/ \E ok \in BOOLEAN : DeleteDocumentSettles(ok)

Spec == Init /\ [][Next]_vars

\* The explicit save and Save & Open on their own: the handlers that set and
\* clear saveBusy and confirmBusy, and the ones that lead to them.
NextSaves ==
    \/ \E text \in Drafts : EditorInput(text)
    \/ RequestNewDocument
    \/ OpenSaveModal
    \/ CloseSaveModal
    \/ \E title \in Titles : HandleSaveConfirm(title)
    \/ SaveConfirmSucceeds
    \/ SaveConfirmFails
    \/ \E shown \in Contents \cup {"error"} : HandleConfirmSave(shown)
    \/ ConfirmSaveFetched
    \/ ConfirmSaveSucceeds
    \/ ConfirmSaveFails
    \/ HandleConfirmDiscard
    \/ HandleConfirmCancel

\* The oldest call on the documents store settles and the handler suspended
\* in it runs on.
StoreCallSettles ==
    \/ SaveConfirmSucceeds
    \/ SaveConfirmFails
    \/ ConfirmSaveFetched
    \/ ConfirmSaveSucceeds
    \/ ConfirmSaveFails

\* The save handlers with every call on the documents store settling
\* eventually.
SpecSettling == Init /\ [][NextSaves]_vars /\ WF_vars(StoreCallSettles)

NextPreview ==
    \/ \E text \in Contents : EditorInputPreview(text)
    \/ \E content \in Contents, throws \in BOOLEAN : NavigatePreview(content, throws)
    \/ \E t \in TimerIds, throws \in BOOLEAN : PreviewTimerFires(t, throws)
    \/ \E throws \in BOOLEAN : SwitchTabPreview(throws)
    \/ \E r \in renders, outcome \in {"svg", "error"}, throws \in BOOLEAN :
          RenderResumes(r, outcome, throws)

SpecPreview == Init /\ [][NextPreview]_vars

NextAutosave ==
    \/ \E text \in Contents : EditorInputAutosave(text)
    \/ \E content \in Contents : NavigateAutosave(content)
    \/ \E t \in autosaveTimers : AutosaveTimerFires(t)
    \/ \E ok \in BOOLEAN : AutosaveTxSettles(ok)

SpecAutosave == Init /\ [][NextAutosave]_vars

\* The autosave with timers that fire and writes that commit: setTimeout
\* callbacks run once due and a transaction that can complete does.
NextAutosaveSucceeds ==
    \/ \E text \in Contents : EditorInputAutosave(text)
    \/ \E content \in Contents : NavigateAutosave(content)
    \/ \E t \in autosaveTimers : AutosaveTimerFires(t)
    \/ AutosaveTxSettles(TRUE)

SpecAutosaveFair ==
    /\ Init
    /\ [][NextAutosaveSucceeds]_vars
    /\ WF_vars(\E t \in autosaveTimers : AutosaveTimerFires(t))
    /\ WF_vars(AutosaveTxSettles(TRUE))

\* A document saved in an earlier session: the sample, under the one title.
StoredDocuments == {[id |-> 1, title |-> "Notes", content |-> sampleMarkdown]}

\* The state after App.init() on a database that holds StoredDocuments and no
\* autosave record.
InitApp ==
    /\ buffer = sampleMarkdown
    /\ InitPreview
    /\ InitAutosave
    /\ currentDocId = NoDoc
    /\ lastSavedContent = sampleMarkdown
    /\ pendingOpenDoc = NoPending
    /\ confirmModal = FALSE
    /\ saveModal = FALSE
    /\ saveBusy = FALSE
    /\ confirmBusy = FALSE
    /\ storeCalls = <<>>
    /\ documents = StoredDocuments
    /\ nextId = 2
    /\ lastStep = "other"

\* Editing, navigation, deletion and the autosave with all their statements.
NextApp ==
    \/ \E text \in Drafts : HandleEditorInput(text)
    \/ \E t \in autosaveTimers : AutosaveTimerFires(t)
    \/ \E ok \in BOOLEAN : AutosaveTxSettles(ok)
    \/ \E id \in 1..MaxDocs : DocListClick(id)
    \/ \E throws \in BOOLEAN : RequestOpenDocumentRuns(throws)
    \/ DocListClickFails
    \/ \E throws \in BOOLEAN : RequestNewDocumentRuns(throws)
    \/ \E throws \in BOOLEAN : HandleConfirmDiscardRuns(throws)
    \/ HandleConfirmCancel
    \/ \E id \in 1..MaxDocs : HandleDeleteDocument(id)
    \/ \E ok \in BOOLEAN : DeleteDocumentSettles(ok)

SpecApp == InitApp /\ [][NextApp]_vars

----------------------------------------------------------------------------
(* Startup: js/app.js init and loadContent, js/storage.js autosaveLoad.     *)
(* SpecStartup begins where init() calls loadContent(), with the variables  *)
(* of app.js at their declared values and a database an earlier session     *)
(* left; the handlers run once loadContent() has returned.                  *)

\* autosaveLoad(): result ? result.content : ''
autosaveLoad(store) ==
    IF \E r \in store : r.id = AUTOSAVE_KEY
    THEN (CHOOSE r \in store : r.id = AUTOSAVE_KEY).content
    ELSE ""

\* editor.value after loadContent: the saved content if it is truthy, the
\* sample otherwise.
editorAtStartup(recovered) ==
    IF recovered # "" THEN recovered ELSE sampleMarkdown

\* A version of loadContent that leaves lastSavedContent at its declared value.
lastSavedAtStartupKeepsEmpty(text) == ""

\* lastSavedContent = editor.value, the last statement of loadContent.
lastSavedAtStartup(text) == text

\* Storage.load() resolves: loadContent runs to its end and init() calls
\* updatePreview().
LoadContent(throws) ==
    /\ lastStep = "starting"
    /\ buffer' = editorAtStartup(autosaveLoad(autosaveStore))
    /\ lastSavedContent' = lastSavedAtStartup(buffer')
    /\ updatePreview(buffer', FALSE, throws)
    /\ lastStep' = "started"
    /\ UNCHANGED <<debounceTimer, previewTimers, autosaveVars>>
    /\ UNCHANGED <<currentDocId, pendingOpenDoc, confirmModal, saveModal, saveBusy,
                   confirmBusy, storeCalls, documents, nextId>>

\* The autosave store an earlier session left: no record, or the record of
\* the last text it wrote.
AutosaveSlots ==
    {{}} \cup {{[id |-> AUTOSAVE_KEY, content |-> c, atFire |-> FALSE, atCommit |-> FALSE]} :
                  c \in Contents}

InitStartup ==
    /\ buffer = ""
    /\ debounceTimer = NoTimer
    /\ previewTimers = {}
    /\ previewGeneration = 0
    /\ renders = {}
    /\ preview = HighlightCode(ParsedMarkup("", 0))
    /\ saveTimeout = NoTimer
    /\ autosaveTimers = {}
    /\ autosaveTx = <<>>
    /\ autosaveStore \in AutosaveSlots
    /\ lastNavigation = "none"
    /\ currentDocId = NoDoc
    /\ lastSavedContent = ""
    /\ pendingOpenDoc = NoPending
    /\ confirmModal = FALSE
    /\ saveModal = FALSE
    /\ saveBusy = FALSE
    /\ confirmBusy = FALSE
    /\ storeCalls = <<>>
    /\ documents \in {{}, StoredDocuments}
    /\ nextId = Cardinality(documents) + 1
    /\ lastStep = "starting"

\* Startup, then editing and navigation.
NextStartup ==
    \/ \E throws \in BOOLEAN : LoadContent(throws)
    \/ lastStep # "starting" /\ \E text \in Contents : HandleEditorInput(text)
    \/ lastStep # "starting" /\ \E id \in 1..MaxDocs : DocListClick(id)
    \/ lastStep # "starting" /\ \E throws \in BOOLEAN : RequestOpenDocumentRuns(throws)
    \/ lastStep # "starting" /\ DocListClickFails
    \/ lastStep # "starting" /\ \E throws \in BOOLEAN : RequestNewDocumentRuns(throws)
    \/ lastStep # "starting" /\ \E throws \in BOOLEAN : HandleConfirmDiscardRuns(throws)
    \/ lastStep # "starting" /\ HandleConfirmCancel

SpecStartup == InitStartup /\ [][NextStartup]_vars

----------------------------------------------------------------------------
(* Navigation against js/storage.js as it stands.  The object the module    *)
(* returns (storage.js, "Public API") has no member cancelPendingAutosave,  *)
(* which loadDocument and resetToNewDocument call as their first statement: *)
(* the call throws a TypeError and the rest of the function, and of its     *)
(* callers, is skipped.  The other specifications run the handlers against  *)
(* the method docs/solutions describes.                                     *)

\* The members of the object js/storage.js returns.
StorageApi ==
    {"init", "load", "debouncedSave", "saveDocument", "updateDocument", "getDocument",
     "getAllDocuments", "deleteDocument", "renameDocument", "searchDocuments"}

\* Storage.cancelPendingAutosave(): a call of a member that is not a function
\* throws, and a call of one that is there runs it.
cancelCallThrows == "cancelPendingAutosave" \notin StorageApi

\* loadDocument(doc) (content and id of doc) and resetToNewDocument() (the
\* empty text, no document) from their first statement on.
LoadOrThrow(content, id, throws) ==
    IF cancelCallThrows
    THEN /\ UNCHANGED <<buffer, currentDocId, lastSavedContent, previewVars, autosaveVars>>
         /\ lastStep' = "loadThrew"
    ELSE /\ IF id = NoDoc /\ content = ""
            THEN ResetToNewDocument(throws)
            ELSE LoadDocument([id |-> id, content |-> content], throws)
         /\ lastStep' = "loaded"

\* getAllDocuments() resolves for a click on the list and requestOpenDocument(doc)
\* runs, if the record is there.
RequestOpenDocumentAsIs(throws) ==
    /\ HeadIs("open")
    /\ storeCalls' = Tail(storeCalls)
    /\ LET doc == getDocument(documents, Head(storeCalls).id) IN
       IF doc.id = NoDoc
       THEN /\ lastStep' = "other"
            /\ UNCHANGED <<buffer, currentDocId, lastSavedContent, pendingOpenDoc, confirmModal>>
            /\ UNCHANGED <<previewVars, autosaveVars>>
       ELSE IF hasUnsavedChanges
       THEN /\ pendingOpenDoc' = DocPending(doc)
            /\ confirmModal' = TRUE
            /\ lastStep' = "other"
            /\ UNCHANGED <<buffer, currentDocId, lastSavedContent>>
            /\ UNCHANGED <<previewVars, autosaveVars>>
       ELSE /\ LoadOrThrow(doc.content, doc.id, throws)
            /\ UNCHANGED <<pendingOpenDoc, confirmModal>>
    /\ UNCHANGED <<saveModal, saveBusy, confirmBusy, documents, nextId>>

\* requestNewDocument(): the New button of the sidebar.
RequestNewDocumentAsIs(throws) ==
    /\ NoDialog
    /\ IF hasUnsavedChanges
       THEN /\ pendingOpenDoc' = NewPending
            /\ confirmModal' = TRUE
            /\ lastStep' = "other"
            /\ UNCHANGED <<buffer, currentDocId, lastSavedContent>>
            /\ UNCHANGED <<previewVars, autosaveVars>>
       ELSE /\ LoadOrThrow("", NoDoc, throws)
            /\ UNCHANGED <<pendingOpenDoc, confirmModal>>
    /\ UNCHANGED <<saveModal, saveBusy, confirmBusy, storeCalls, documents, nextId>>

\* handleConfirmDiscard(): closeConfirmModal(); openPendingDoc(), whose last
\* statement (pendingOpenDoc = null) is skipped when the load throws.
HandleConfirmDiscardAsIs(throws) ==
    /\ confirmModal
    /\ ~confirmButtonsDisabled(confirmBusy)
    /\ confirmModal' = FALSE
    /\ IF pendingOpenDoc = NoPending
       THEN /\ lastStep' = "discarded"
            /\ UNCHANGED <<buffer, currentDocId, lastSavedContent, pendingOpenDoc>>
            /\ UNCHANGED <<previewVars, autosaveVars>>
       ELSE /\ IF pendingOpenDoc = NewPending
               THEN LoadOrThrow("", NoDoc, throws)
               ELSE LoadOrThrow(pendingOpenDoc.content, pendingOpenDoc.id, throws)
            /\ pendingOpenDoc' = IF cancelCallThrows THEN pendingOpenDoc ELSE NoPending
    /\ UNCHANGED <<saveModal, saveBusy, confirmBusy, storeCalls, documents, nextId>>

\* Editing, the autosave and navigation against js/storage.js as it stands.
NextAsIs ==
    \/ \E text \in Contents : HandleEditorInput(text)
    \/ \E t \in autosaveTimers : AutosaveTimerFires(t)
    \/ \E ok \in BOOLEAN : AutosaveTxSettles(ok)
    \/ \E id \in 1..MaxDocs : DocListClick(id)
    \/ \E throws \in BOOLEAN : RequestOpenDocumentAsIs(throws)
    \/ DocListClickFails
    \/ \E throws \in BOOLEAN : RequestNewDocumentAsIs(throws)
    \/ \E throws \in BOOLEAN : HandleConfirmDiscardAsIs(throws)
    \/ HandleConfirmCancel

SpecAsIs == InitApp /\ [][NextAsIs]_vars

----------------------------------------------------------------------------
(* Renaming next to Save & Open: js/app.js startRename (finishRename),      *)
(* js/storage.js renameDocument.  SpecRename runs the confirm dialog and    *)
(* the rename of a stored document on the one queue of transactions.        *)

\* The titles typed into a .doc-rename-input.
NewTitles == {"Renamed"}

\* renameDocument(id, newTitle) committed, on records [id, title, content]:
\* the record's title is replaced; without a record nothing is written.
renameStored(store, id, newTitle) ==
    {IF d.id = id THEN [d EXCEPT !.title = newTitle] ELSE d : d \in store}

\* finishRename() up to its await: the rename input lost the focus with a
\* title that is not the original one.
FinishRename(id, newTitle) ==
    /\ id \in 1..(nextId - 1)
    /\ Len(storeCalls) < MaxCalls
    /\ storeCalls' = Append(storeCalls, Call("rename", "rename", id, newTitle, ""))
    /\ lastStep' = "other"
    /\ UNCHANGED <<buffer, currentDocId, lastSavedContent, pendingOpenDoc, confirmModal,
                   saveModal, saveBusy, confirmBusy, documents, nextId>>
    /\ UNCHANGED <<previewVars, autosaveVars>>

\* Storage.renameDocument settles and finishRename runs to its end (the list
\* is drawn again).
RenameSettles(ok) ==
    /\ HeadIs("rename")
    /\ storeCalls' = Tail(storeCalls)
    /\ documents' = IF ok
                    THEN renameStored(documents, Head(storeCalls).id, Head(storeCalls).title)
                    ELSE documents
    /\ lastStep' = "other"
    /\ UNCHANGED <<buffer, currentDocId, lastSavedContent, pendingOpenDoc, confirmModal,
                   saveModal, saveBusy, confirmBusy, nextId>>
    /\ UNCHANGED <<previewVars, autosaveVars>>

NextRename ==
    \/ \E text \in Drafts : EditorInput(text)
    \/ \E id \in 1..MaxDocs : DocListClick(id)
    \/ RequestOpenDocument
    \/ RequestNewDocument
    \/ \E shown \in Contents \cup {"error"} : HandleConfirmSave(shown)
    \/ ConfirmSaveFetched
    \/ ConfirmSaveSucceeds
    \/ ConfirmSaveFails
    \/ HandleConfirmDiscard
    \/ HandleConfirmCancel
    \/ \E id \in 1..MaxDocs, newTitle \in NewTitles : FinishRename(id, newTitle)
    \/ \E ok \in BOOLEAN : RenameSettles(ok)

SpecRename == InitApp /\ [][NextRename]_vars

----------------------------------------------------------------------------
(* The auto title of Save & Open: js/app.js getAutoTitle reads the first    *)
(* heading from the preview surface.  SpecTitle runs editing, the preview   *)
(* timer and its renders, New and the confirm dialog on an unbound buffer,  *)
(* with all their statements.                                               *)

\* handleConfirmSave(): getAutoTitle() looks for the heading in #preview as
\* it is at the click.
HandleConfirmSaveReads == HandleConfirmSave(preview.html)

\* saveDocument of handleConfirmSave resolves and the handler runs to its
\* end: currentDocId = newId, lastSavedContent = content, finally,
\* closeConfirmModal(), openPendingDoc().
ConfirmSaveCreated(throws) ==
    /\ HeadIs("confirm")
    /\ Head(storeCalls).stage = "add"
    /\ nextId <= MaxDocs
    /\ LET call == Head(storeCalls) IN
       /\ documents' = saveDocument(documents, nextId, call.title, call.content)
       /\ OpenPendingDoc(nextId, call.content, throws)
    /\ nextId' = nextId + 1
    /\ lastStep' = "createdAndOpened"
    /\ confirmModal' = FALSE
    /\ confirmBusy' = busyAfterFinally(confirmBusy)
    /\ storeCalls' = Tail(storeCalls)
    /\ UNCHANGED <<saveModal, saveBusy>>

NextTitle ==
    \/ \E text \in Contents : HandleEditorInput(text)
    \/ \E t \in TimerIds, throws \in BOOLEAN : PreviewTimerFires(t, throws)
    \/ \E r \in renders, outcome \in {"svg", "error"}, throws \in BOOLEAN :
          RenderResumes(r, outcome, throws)
    \/ \E throws \in BOOLEAN : RequestNewDocumentRuns(throws)
    \/ HandleConfirmSaveReads
    \/ \E throws \in BOOLEAN : ConfirmSaveCreated(throws)
    \/ ConfirmSaveFails
    \/ \E throws \in BOOLEAN : HandleConfirmDiscardRuns(throws)
    \/ HandleConfirmCancel

SpecTitle == Init /\ [][NextTitle]_vars

----------------------------------------------------------------------------
(* The documents store on its own: js/storage.js saveDocument,              *)
(* updateDocument, renameDocument, deleteDocument, getAllDocuments and      *)
(* searchDocuments, each call running in one transaction.  SpecStore calls  *)
(* them in any order on records [id, title, content, updatedAt]; a title is *)
(* a sequence of characters.  In SpecStore lastStep records the call that   *)
(* ran last and what its promise settled with.                              *)

MaxStoreDocs == 2
MaxClock == 3

\* Date.now()
Clock == 1..MaxClock

Chars == {"A", "a", "B", "b"}

StoreTitles == {<<"A", "b">>, <<"a">>, <<"b", "A">>}

\* The texts typed into #doc-search.
Queries == {<<>>} \cup {<<c>> : c \in Chars} \cup {<<c, d>> : c, d \in Chars}

LowerChar(c) == IF c = "A" THEN "a" ELSE IF c = "B" THEN "b" ELSE c

\* String.prototype.toLowerCase
toLowerCase(s) == [i \in DOMAIN s |-> LowerChar(s[i])]

\* String.prototype.includes
includes(s, q) == \E i \in 1..(Len(s) - Len(q) + 1) : SubSeq(s, i, i + Len(q) - 1) = q

\* A promise settles once: of the resolve and reject calls made on it, in
\* order, the first decides.
Settled(calls) == Head(calls)

\* store.add({title, content, createdAt: now, updatedAt: now})
addDocument(store, id, title, content, now) ==
    store \cup {[id |-> id, title |-> title, content |-> content, updatedAt |-> now]}

\* A version of updateDocument that puts the record whether or not get found one.
updateDocumentUpserts(store, id, title, content, now) ==
    [store |-> {d \in store : d.id # id}
                  \cup {[id |-> id, title |-> title, content |-> content, updatedAt |-> now]},
     outcome |-> "resolved"]

\* updateDocument(id, title, content) with its promise: store.get(id); if no
\* record, reject('Document not found') and return, the transaction then
\* completes and its resolve() comes second; else the record is put with the
\* new title, content and updatedAt and the promise resolves on complete.
updateDocumentTx(store, id, title, content, now) ==
    IF ~Found(store, id)
    THEN [store |-> store, outcome |-> Settled(<<"notFound", "resolved">>)]
    ELSE [store |-> {d \in store : d.id # id}
                       \cup {[d EXCEPT !.title = title, !.content = content, !.updatedAt = now] :
                                d \in {e \in store : e.id = id}},
          outcome |-> Settled(<<"resolved">>)]

\* renameDocument(id, newTitle) with its promise: as updateDocument, the
\* content being kept.
renameDocument(store, id, newTitle, now) ==
    IF ~Found(store, id)
    THEN [store |-> store, outcome |-> Settled(<<"notFound", "resolved">>)]
    ELSE [store |-> {d \in store : d.id # id}
                       \cup {[d EXCEPT !.title = newTitle, !.updatedAt = now] :
                                d \in {e \in store : e.id = id}},
          outcome |-> Settled(<<"resolved">>)]

\* store.getAll(): the records in the order of their keys.
RECURSIVE getAll(_)
getAll(store) ==
    IF store = {} THEN <<>>
    ELSE LET first == CHOOSE d \in store : \A e \in store : d.id <= e.id
         IN <<first>> \o getAll(store \ {first})

\* docs.sort((a, b) => b.updatedAt - a.updatedAt): the sort is stable, a
\* record goes behind the ones with the same updatedAt that precede it.
RECURSIVE InsertByUpdatedAt(_, _)
InsertByUpdatedAt(sorted, doc) ==
    IF sorted = <<>> THEN <<doc>>
    ELSE IF Head(sorted).updatedAt >= doc.updatedAt
         THEN <<Head(sorted)>> \o InsertByUpdatedAt(Tail(sorted), doc)
         ELSE <<doc>> \o sorted

RECURSIVE SortByUpdatedAtDesc(_)
SortByUpdatedAtDesc(docs) ==
    IF docs = <<>> THEN <<>>
    ELSE InsertByUpdatedAt(SortByUpdatedAtDesc(SubSeq(docs, 1, Len(docs) - 1)), docs[Len(docs)])

\* getAllDocuments()
getAllDocuments(store) == SortByUpdatedAtDesc(getAll(store))

\* A version of searchDocuments that compares the title and the query as typed.
searchDocumentsCaseSensitive(store, query) ==
    LET matches(doc) == includes(doc.title, query)
    IN SortByUpdatedAtDesc(SelectSeq(getAll(store), matches))

\* searchDocuments(query): getAll, filter by
\* doc.title.toLowerCase().includes(query.toLowerCase()), sort.
searchDocuments(store, query) ==
    LET matches(doc) == includes(toLowerCase(doc.title), toLowerCase(query))
    IN SortByUpdatedAtDesc(SelectSeq(getAll(store), matches))

\* The calls of SpecStore leave the editor and the session as they are.
StoreFrame ==
    UNCHANGED <<buffer, previewVars, autosaveVars, currentDocId, lastSavedContent,
                pendingOpenDoc, confirmModal, saveModal, saveBusy, confirmBusy, storeCalls>>

StoreSave(title, content, now) ==
    /\ nextId <= MaxStoreDocs
    /\ documents' = addDocument(documents, nextId, title, content, now)
    /\ nextId' = nextId + 1
    /\ lastStep' = [op |-> "save", outcome |-> "resolved", result |-> nextId]
    /\ StoreFrame

StoreUpdate(id, title, content, now) ==
    LET tx == updateDocumentTx(documents, id, title, content, now) IN
    /\ documents' = tx.store
    /\ lastStep' = [op |-> "update", id |-> id, outcome |-> tx.outcome]
    /\ UNCHANGED nextId
    /\ StoreFrame

StoreRename(id, newTitle, now) ==
    LET tx == renameDocument(documents, id, newTitle, now) IN
    /\ documents' = tx.store
    /\ lastStep' = [op |-> "rename", id |-> id, outcome |-> tx.outcome]
    /\ UNCHANGED nextId
    /\ StoreFrame

StoreDelete(id) ==
    /\ Found(documents, id)
    /\ documents' = deleteDocument(documents, id)
    /\ lastStep' = [op |-> "delete", id |-> id, outcome |-> "resolved"]
    /\ UNCHANGED nextId
    /\ StoreFrame

StoreList ==
    /\ lastStep' = [op |-> "list", outcome |-> "resolved", result |-> getAllDocuments(documents)]
    /\ UNCHANGED <<documents, nextId>>
    /\ StoreFrame

StoreSearch(query) ==
    /\ lastStep' = [op |-> "search", query |-> query, outcome |-> "resolved",
                    result |-> searchDocuments(documents, query)]
    /\ UNCHANGED <<documents, nextId>>
    /\ StoreFrame

InitStore ==
    /\ buffer = sampleMarkdown
    /\ InitPreview
    /\ InitAutosave
    /\ currentDocId = NoDoc
    /\ lastSavedContent = sampleMarkdown
    /\ pendingOpenDoc = NoPending
    /\ confirmModal = FALSE
    /\ saveModal = FALSE
    /\ saveBusy = FALSE
    /\ confirmBusy = FALSE
    /\ storeCalls = <<>>
    /\ documents = {}
    /\ nextId = 1
    /\ lastStep = [op |-> "none", outcome |-> "resolved"]

NextStore ==
    \/ \E title \in StoreTitles, content \in Drafts, now \in Clock : StoreSave(title, content, now)
    \/ \E id \in 1..MaxStoreDocs, title \in StoreTitles, content \in Drafts, now \in Clock :
          StoreUpdate(id, title, content, now)
    \/ \E id \in 1..MaxStoreDocs, title \in StoreTitles, now \in Clock : StoreRename(id, title, now)
    \/ \E id \in 1..MaxStoreDocs : StoreDelete(id)
    \/ StoreList
    \/ \E query \in Queries : StoreSearch(query)

SpecStore == InitStore /\ [][NextStore]_vars

----------------------------------------------------------------------------
(* Preview scheduler *)

\* C1: a render that has been superseded by a later updatePreview call leaves
\* the preview surface as it is when it completes, whether it resolves or
\* rejects.
C1_StaleRenderLeavesPreview ==
    [][\A r \in renders :
          (r \notin renders' /\ r.generation # previewGeneration) => preview' = preview]_vars

\* C2: the timer that fires and starts a render is the only preview timer of
\* its burst (none is left armed behind it), and the render it starts shows
\* the buffer as it is when the timer fires, or the error markup.
C2_OneRenderPerBurst ==
    [][(previewGeneration' # previewGeneration /\ previewTimers' # previewTimers)
          => (previewTimers' = {} /\ preview'.html \in {buffer, "error"})]_vars

\* C24: at most one preview debounce timer is armed in every reachable state,
\* a render of an earlier timer being in flight or just completed included.
C24_OnePreviewTimerArmed == Cardinality(previewTimers) <= 1

\* A step that calls updatePreview: the debounce timer firing, the Preview
\* tab, a load or a reset.
RenderStarts ==
    \/ \E t \in TimerIds, throws \in BOOLEAN : PreviewTimerFires(t, throws)
    \/ \E throws \in BOOLEAN : SwitchTabPreview(throws)
    \/ \E content \in Contents, throws \in BOOLEAN : NavigatePreview(content, throws)

\* C29: a step that starts a render increments previewGeneration by one, no
\* other step changes it, and a render that suspends holds a generation
\* greater than that of every render in flight.
C29_GenerationIncreasesByOne ==
    [][/\ RenderStarts => previewGeneration' = previewGeneration + 1
       /\ ~RenderStarts => previewGeneration' = previewGeneration
       /\ \A r \in renders' \ renders :
             /\ r.generation = previewGeneration'
             /\ \A q \in renders : q.generation < r.generation]_vars

\* C29 witness: two renders started one after the other are in flight, the
\* later one with the current generation.
C29_TwoRendersInFlight ==
    \E r, q \in renders :
       /\ q.generation = r.generation + 1
       /\ q.generation = previewGeneration

\* A step in which a render rejects: updatePreview called by the timer or by
\* the Preview tab with the parser throwing before its await, or a suspended
\* render resuming with Prism throwing.
RenderRejects ==
    \/ \E t \in TimerIds : PreviewTimerFires(t, TRUE)
    \/ SwitchTabPreview(TRUE)
    \/ \E r \in renders, outcome \in {"svg", "error"} : RenderResumes(r, outcome, TRUE)

\* C21: when a render rejects, the preview shows the error markup if the
\* render is of the current generation and is left as it is if the render has
\* been superseded; either way the buffer, the binding, lastSavedContent, the
\* autosave slot and the documents store are unchanged.
C21_RenderFailureShowsErrorIfCurrent ==
    [][RenderRejects
          => /\ lastStep' = "renderFailed" => preview' = ErrorMarkup
             /\ lastStep' = "staleRenderFailed" => preview' = preview
             /\ lastStep' \in {"renderFailed", "staleRenderFailed"}
             /\ UNCHANGED <<buffer, currentDocId, lastSavedContent, autosaveStore,
                            documents>>]_vars

\* C21 witness: a superseded render has just rejected and the preview shows
\* the markup of a later render, not the error markup.
C21_StaleRenderJustFailed ==
    /\ lastStep = "staleRenderFailed"
    /\ preview # ErrorMarkup
    /\ preview.generation = previewGeneration

\* No preview timer is armed and no render is suspended.
PreviewSettled == previewTimers = {} /\ renders = {}

\* C34: once every preview timer has fired and every render has run to its
\* end, and the surface does not show the error of a rejected render, the
\* surface shows the finished rendering of the current buffer.
C34_SettledPreviewShowsBuffer ==
    (PreviewSettled /\ preview # ErrorMarkup)
        => /\ preview.html = buffer
           /\ preview.diagram # "pending"
           /\ preview.highlighted

\* A diagram text was loaded or typed after other renders, and its render
\* has finished with nothing left to run.
C34_SettledAfterLoadsAndEdits ==
    /\ PreviewSettled
    /\ lastStep = "rendered"
    /\ buffer = "diagram"
    /\ preview.html = "diagram"
    /\ preview.generation >= 3

----------------------------------------------------------------------------
(* Autosave scheduler *)

\* All autosave timers have fired or been cleared and all writes have settled.
AutosaveSettled == autosaveTimers = {} /\ autosaveTx = <<>>

C23_DebounceAndCancel ==
    [][/\ Cardinality(autosaveTimers') <= 1
       /\ \A t \in autosaveTimers' :
             t.id = saveTimeout' /\ t.content = buffer' /\ ~t.replaced
       /\ \A t \in autosaveTimers :
             AutosaveTimerFires(t)
                => /\ autosaveTx'[Len(autosaveTx')].content = buffer
                   /\ autosaveTimers' = {}]_vars

\* C23 witness: a debouncedSave call has replaced the timer of an earlier call
\* that had not fired, while the write of a still earlier one is in flight.
C23_TimerSuperseded ==
    /\ saveTimeout = 2
    /\ autosaveTimers = {[id |-> 2, content |-> buffer, replaced |-> FALSE]}
    /\ autosaveTx # <<>>
    /\ autosaveTx[1].content # buffer

\* An input event has set the buffer to `text` and armed the autosave timer
\* with it, and neither an input nor a load has followed.
QuietSinceInput(text) ==
    /\ buffer = text
    /\ lastNavigation = "none"

InputArmedAutosave(text) ==
    /\ QuietSinceInput(text)
    /\ \E t \in autosaveTimers : t.id = saveTimeout /\ t.content = text

\* The autosave store holds the text and nothing else.
SlotHolds(text) == {r.content : r \in autosaveStore} = {text}

\* C33: after an input event that is followed by no other input and no load,
\* with timers that fire and writes that commit, the autosave slot eventually
\* holds exactly the content of the buffer.
C33_AutosaveCatchesUp ==
    \A text \in Contents :
        InputArmedAutosave(text) ~> (SlotHolds(text) \/ ~QuietSinceInput(text))

\* The write of the text typed last has committed and nothing is pending.
C33_SlotCaughtUp ==
    /\ buffer = "diagram"
    /\ lastNavigation = "none"
    /\ autosaveTimers = {}
    /\ autosaveTx = <<>>
    /\ SlotHolds(buffer)

\* C40: the autosave store never holds more than one record, and a write
\* that commits leaves exactly one, under AUTOSAVE_KEY, with the content that
\* was written.
C40_AutosaveIsOneSlot ==
    /\ [](Cardinality(autosaveStore) <= 1)
    /\ [][AutosaveTxSettles(TRUE)
             => /\ Cardinality(autosaveStore') = 1
                /\ \A r \in autosaveStore' :
                      r.id = AUTOSAVE_KEY /\ r.content = Head(autosaveTx).content]_vars

\* A write has replaced the text an earlier write left in the slot.
C40_SlotOverwritten ==
    /\ \E r \in autosaveStore : r.content = "diagram"
    /\ autosaveTx # <<>>
    /\ Head(autosaveTx).content = ""
    /\ buffer = ""

----------------------------------------------------------------------------
(* Session controller *)

\* The loads: a document or the new document replaced the buffer.
Loads == {"loaded", "discarded", "savedAndOpened", "createdAndOpened"}

\* The pending target is applied: the buffer, the binding and lastSavedContent
\* are the target's.
TargetApplied ==
    /\ pendingOpenDoc # NoPending
    /\ pendingOpenDoc = NewPending => buffer' = "" /\ currentDocId' = NoDoc
    /\ pendingOpenDoc.kind = "doc" =>
           buffer' = pendingOpenDoc.content /\ currentDocId' = pendingOpenDoc.id
    /\ lastSavedContent' = buffer'

\* The suspended calls of handleSaveConfirm among `calls`.
IsSaveCall(call) == call.handler = "save"
SaveCalls(calls) == SelectSeq(calls, IsSaveCall)

\* C5: a trigger of the explicit save that arrives while saveBusy is set
\* issues no store call (one call at most is suspended), and when the call of
\* a save of an unbound buffer that was triggered twice resolves, one record
\* has been created and no call is left.
C5_SecondSaveTriggerIsNoOp ==
    [][/\ Len(SaveCalls(storeCalls')) <= 1
       /\ (SaveConfirmSucceeds /\ Head(storeCalls).retried /\ Head(storeCalls).stage = "add")
             => /\ SaveCalls(storeCalls') = <<>>
                /\ Cardinality(documents') = Cardinality(documents) + 1]_vars

\* C5 witness: a save of an unbound buffer is suspended in the store and a
\* second trigger has arrived.
C5_SecondTriggerWhileBusy ==
    /\ saveBusy
    /\ \E i \in DOMAIN storeCalls :
          IsSaveCall(storeCalls[i]) /\ storeCalls[i].retried /\ storeCalls[i].stage = "add"

\* C6 as stated: hasUnsavedChanges() is false right after a load and right
\* after a successful explicit save, and true right after a buffer mutation.
C6_UnsavedChangesAsStated ==
    /\ lastStep \in Loads \cup {"saved"} => ~hasUnsavedChanges
    /\ lastStep = "edited" => hasUnsavedChanges

\* C6 amended: hasUnsavedChanges() is false right after a load; it is false
\* right after a successful explicit save if the buffer still holds the
\* content the save read before its await; and a buffer mutation made while
\* it is false makes it true.
C6_UnsavedChanges ==
    [][/\ lastStep' \in Loads => buffer' = lastSavedContent'
       /\ (SaveConfirmSucceeds /\ buffer = Head(storeCalls).content) => buffer' = lastSavedContent'
       /\ (lastStep' = "edited" /\ buffer' # buffer /\ ~hasUnsavedChanges)
             => buffer' # lastSavedContent']_vars

\* C6 witness: an explicit save has just succeeded on the text the editor
\* still holds.
C6_JustSaved ==
    /\ lastStep = "saved"
    /\ currentDocId # NoDoc
    /\ getDocument(documents, currentDocId).content = buffer

C8_SaveThenOpen ==
    [][(ConfirmSaveSucceeds /\ Head(storeCalls).stage = "update")
          => LET call == Head(storeCalls) IN
             /\ Found(documents', call.bound)
             /\ getDocument(documents', call.bound).content = call.content
             /\ TargetApplied]_vars

\* C9: when a store call of Save & Open rejects, the confirm dialog stays
\* open, the pending target is kept, and the buffer, the binding and
\* lastSavedContent are unchanged.
C9_FailedSaveKeepsConfirmPending ==
    [][ConfirmSaveFails
          => /\ confirmModal'
             /\ pendingOpenDoc' = pendingOpenDoc
             /\ pendingOpenDoc' # NoPending
             /\ UNCHANGED <<buffer, currentDocId, lastSavedContent>>]_vars

\* C10: Cancel clears the pending target and closes the confirm dialog, and
\* leaves the buffer, the binding, lastSavedContent and the store unchanged.
C10_CancelClearsTarget ==
    [][HandleConfirmCancel
          => /\ pendingOpenDoc # NoPending
             /\ pendingOpenDoc' = NoPending
             /\ ~confirmModal'
             /\ ~confirmBusy'
             /\ UNCHANGED <<buffer, currentDocId, lastSavedContent, documents>>]_vars

\* C10 witness: Cancel has just closed the dialog over a buffer that still has
\* unsaved changes.
C10_JustCancelled ==
    /\ lastStep = "cancelled"
    /\ hasUnsavedChanges
    /\ pendingOpenDoc = NoPending

\* C11: the pending navigation target is empty whenever the confirm dialog is
\* not shown, after every exit of the dialog (Discard, Cancel, Save & Open
\* succeeding, Save & Open failing).
C11_PendingEmptyWithoutDialog ==
    ~confirmModal => pendingOpenDoc = NoPending

\* C14: when the store call of an explicit save resolves: if a document was
\* bound when the save was triggered, that record holds the typed title and
\* the content read from the editor, every other record is as it was and no
\* record is created; if none was bound, one record is created with that
\* title and content and becomes the bound document; in both cases
\* lastSavedContent is the content written.
C14_ExplicitSave ==
    [][SaveConfirmSucceeds
          => LET call == Head(storeCalls) IN
             /\ call.stage = "update"
                   => /\ [id |-> call.id, title |-> call.title, content |-> call.content]
                            \in documents'
                      /\ \A d \in documents : d.id # call.id => d \in documents'
                      /\ Cardinality(documents') = Cardinality(documents)
                      /\ currentDocId' = currentDocId
             /\ call.stage = "add"
                   => /\ ~Found(documents, currentDocId')
                      /\ documents' = documents \cup
                            {[id |-> currentDocId', title |-> call.title,
                              content |-> call.content]}
                      /\ Cardinality(documents') = Cardinality(documents) + 1
             /\ lastSavedContent' = call.content]_vars

\* C14 witness: an explicit save has just updated a record (the first
\* document is bound after the save while a second one exists, so the save
\* created none).
C14_JustUpdated ==
    /\ lastStep = "saved"
    /\ currentDocId = 1
    /\ nextId = 3
    /\ Found(documents, 1)

\* C15: when a store call of the explicit save or of Save & Open rejects
\* (an update of a record that is gone included), the handler applies nothing:
\* the binding, lastSavedContent and the buffer are as they were.
C15_RejectedSaveAppliesNothing ==
    [][(SaveConfirmFails \/ ConfirmSaveFails)
          => UNCHANGED <<currentDocId, lastSavedContent, buffer>>]_vars

\* C15 witness: a store call of Save & Open has just rejected, over a buffer
\* that still has unsaved changes.
C15_SaveJustRejected ==
    /\ lastStep = "openFailed"
    /\ ~confirmBusy
    /\ hasUnsavedChanges

C17_BusyIsLeft ==
    /\ saveBusy ~> ~saveBusy
    /\ confirmBusy ~> ~confirmBusy

\* C17 witness: an explicit save and a Save & Open are both suspended in the
\* store.
C17_BothBusy ==
    /\ saveBusy
    /\ confirmBusy
    /\ Len(storeCalls) = 2

\* The suspended calls of handleConfirmSave among `calls`.
IsConfirmCall(call) == call.handler = "confirm"
ConfirmCalls(calls) == SelectSeq(calls, IsConfirmCall)

C19_DeleteUnbindsCurrentOnly ==
    [][/\ DeleteDocumentSettles(TRUE)
             => LET id == Head(storeCalls).id IN
                /\ ~Found(documents', id)
                /\ buffer' = buffer
                /\ IF currentDocId = id
                   THEN currentDocId' = NoDoc /\ lastSavedContent' = ""
                   ELSE UNCHANGED <<currentDocId, lastSavedContent>>
       /\ DeleteDocumentSettles(FALSE)
             => UNCHANGED <<buffer, currentDocId, lastSavedContent, pendingOpenDoc,
                            confirmModal, saveModal, saveBusy, confirmBusy, documents>>]_vars

\* C19 witness: the bound document has just been deleted under a buffer that
\* still holds its text.
C19_CurrentJustDeleted ==
    /\ lastStep = "deleted"
    /\ currentDocId = NoDoc
    /\ buffer # ""

\* C25: loadDocument or resetToNewDocument replaces the buffer only in a
\* step of requestOpenDocument or requestNewDocument that found the buffer
\* equal to lastSavedContent, in Discard, or in a Save & Open whose write
\* resolved, the last two with the confirm dialog shown and a target pending;
\* every other step that changes the buffer is an input of the user.
C25_GuardNeverBypassed ==
    [][/\ lastStep' = "loaded"
             => /\ ~hasUnsavedChanges
                /\ RequestNewDocument \/ RequestOpenDocument
       /\ lastStep' = "discarded" => HandleConfirmDiscard /\ pendingOpenDoc # NoPending
       /\ lastStep' \in {"savedAndOpened", "createdAndOpened"}
             => ConfirmSaveSucceeds /\ confirmModal /\ pendingOpenDoc # NoPending
       /\ buffer' # buffer
             => \/ lastStep' \in Loads
                \/ \E text \in Drafts : EditorInput(text)]_vars

\* C25 witness: a Save & Open on a bound document has just replaced the
\* buffer by the pending target, and a navigation requested earlier over
\* unsaved changes had opened the dialog.
C25_ReplacedAfterSaveAndOpen ==
    /\ lastStep = "savedAndOpened"
    /\ ~confirmModal
    /\ pendingOpenDoc = NoPending
    /\ buffer = lastSavedContent

IssuesCall == Len(storeCalls') = Len(storeCalls) + 1
IssuedCall == storeCalls'[Len(storeCalls')]

\* C27: while the saveDocument call of a Save & Open on an unbound buffer is
\* in flight (the dialog stays open and nothing can replace the unbound
\* buffer), no explicit save issues a second saveDocument call for the same
\* content: two writes of one unbound buffer are never in flight together,
\* and no second record is created for it.
C27_OneCreateAcrossHandlers ==
    [][\A i \in DOMAIN storeCalls :
          (IsConfirmCall(storeCalls[i]) /\ storeCalls[i].stage = "add" /\ IssuesCall)
             => ~(/\ IsSaveCall(IssuedCall)
                  /\ IssuedCall.stage = "add"
                  /\ IssuedCall.content = storeCalls[i].content)]_vars

C32_BusyDialogIgnoresDiscardAndCancel ==
    [][(confirmBusy /\ (HandleConfirmDiscard \/ HandleConfirmCancel))
          => UNCHANGED <<buffer, currentDocId, lastSavedContent, pendingOpenDoc>>]_vars

\* The dialog is shown with a target while its save is in flight.
C32_SaveAndOpenInFlight ==
    /\ confirmBusy
    /\ confirmModal
    /\ pendingOpenDoc # NoPending
    /\ HeadIs("confirm")

\* C37: the delete of the bound document under a non-empty buffer leaves the
\* buffer unbound and counted as unsaved; an explicit save started on an
\* unbound buffer adds a record, and when it resolves the store holds a new
\* record under a key no record had and the buffer is bound to it; an
\* explicit save that resolves as an update wrote a record that was there.
C37_SaveAfterDeleteCreatesRecord ==
    [][/\ (DeleteDocumentSettles(TRUE) /\ currentDocId = Head(storeCalls).id /\ buffer # "")
             => /\ currentDocId' = NoDoc
                /\ buffer' # lastSavedContent'
       /\ \A title \in Titles :
             (HandleSaveConfirm(title) /\ ~saveBusy /\ currentDocId = NoDoc)
                => storeCalls'[Len(storeCalls')].stage = "add"
       /\ SaveConfirmSucceeds
             => LET call == Head(storeCalls) IN
                IF call.stage = "add"
                THEN /\ ~Found(documents, currentDocId')
                     /\ documents' = documents \cup {getDocument(documents', currentDocId')}
                     /\ getDocument(documents', currentDocId').content = call.content
                ELSE /\ Found(documents, call.id)
                     /\ {d.id : d \in documents'} = {d.id : d \in documents}]_vars

\* The first document was deleted while it was bound, and the save that
\* followed has created the second one and bound the buffer to it.
C37_SavedAnewAfterDelete ==
    /\ lastStep = "saved"
    /\ ~Found(documents, 1)
    /\ currentDocId = 2
    /\ Found(documents, 2)
    /\ buffer # ""

----------------------------------------------------------------------------
(* Navigation with all its statements (SpecApp) *)

\* The document requestOpenDocument is called with when the getAllDocuments()
\* call of the oldest list click resolves.
ClickedDocument == getDocument(documents, Head(storeCalls).id)

\* A load or a reset ran in this step to its end: no autosave timer is left
\* armed, and a render of the new buffer was started (the preview holds its
\* markup or the error markup).
AutosaveCancelledAndRenderStarted ==
    /\ saveTimeout' = NoTimer
    /\ autosaveTimers' = {}
    /\ previewGeneration' = previewGeneration + 1
    /\ preview' \in {ParsedMarkup(buffer', previewGeneration'),
                     HighlightCode(ParsedMarkup(buffer', previewGeneration')),
                     ErrorMarkup}

C13_ConfirmPendingLeavesBinding ==
    [][/\ ((\E throws \in BOOLEAN : RequestNewDocumentRuns(throws)) /\ hasUnsavedChanges)
             => /\ pendingOpenDoc' = NewPending
                /\ confirmModal'
                /\ UNCHANGED <<buffer, currentDocId, lastSavedContent, saveTimeout,
                               autosaveTimers, autosaveStore, documents>>
       /\ ((\E throws \in BOOLEAN : RequestOpenDocumentRuns(throws))
              /\ hasUnsavedChanges /\ ClickedDocument.id # NoDoc)
             => /\ pendingOpenDoc' = DocPending(ClickedDocument)
                /\ confirmModal'
                /\ UNCHANGED <<buffer, currentDocId, lastSavedContent, saveTimeout,
                               autosaveTimers, autosaveStore, documents>>
       /\ (confirmModal /\ confirmModal')
             => UNCHANGED <<currentDocId, lastSavedContent>>]_vars

\* A step of the autosave: an input that schedules it, its timer firing, its
\* transaction settling.
AutosaveActivity ==
    \/ \E text \in Drafts : HandleEditorInput(text)
    \/ \E t \in autosaveTimers : AutosaveTimerFires(t)
    \/ \E ok \in BOOLEAN : AutosaveTxSettles(ok)

----------------------------------------------------------------------------
(* Navigation against js/storage.js as it stands (SpecAsIs) *)

\* A step that calls loadDocument or resetToNewDocument: a request to open a
\* stored document or the new document over a buffer without unsaved changes,
\* or Discard with a pending target.
LoadIsCalled ==
    \/ (\E throws \in BOOLEAN : RequestNewDocumentAsIs(throws)) /\ ~hasUnsavedChanges
    \/ /\ \E throws \in BOOLEAN : RequestOpenDocumentAsIs(throws)
       /\ ~hasUnsavedChanges
       /\ ClickedDocument.id # NoDoc
    \/ (\E throws \in BOOLEAN : HandleConfirmDiscardAsIs(throws)) /\ pendingOpenDoc # NoPending

\* C22: the Storage module exposes the cancel operation, and a step that
\* calls loadDocument or resetToNewDocument leaves no autosave timer armed,
\* leaves the autosave slot, the documents store and the preview timer as
\* they are, and runs the load to its end (lastSavedContent is the new
\* buffer and a render is started).
C22_LoadCancelsPendingAutosave ==
    [][LoadIsCalled
          => /\ "cancelPendingAutosave" \in StorageApi
             /\ saveTimeout' = NoTimer
             /\ autosaveTimers' = {}
             /\ UNCHANGED <<autosaveStore, documents, debounceTimer, previewTimers>>
             /\ lastSavedContent' = buffer'
             /\ previewGeneration' = previewGeneration + 1]_vars

----------------------------------------------------------------------------
(* Startup (SpecStartup) *)

----------------------------------------------------------------------------
(* Documents store (SpecStore) *)

\* C35: updateDocument and renameDocument called with an id the store has no
\* record of reject with 'Document not found' and leave the store as it is.
C35_AbsentIdIsNotFound ==
    [][\A id \in 1..MaxStoreDocs :
          ((\/ \E title \in StoreTitles, content \in Drafts, now \in Clock :
                  StoreUpdate(id, title, content, now)
            \/ \E title \in StoreTitles, now \in Clock : StoreRename(id, title, now))
           /\ ~Found(documents, id))
             => /\ lastStep'.outcome = "notFound"
                /\ documents' = documents]_vars

\* An update or a rename of an id that is not in the store, which holds
\* another record, has just been rejected.
C35_RejectedOnAbsentId ==
    /\ lastStep.op \in {"update", "rename"}
    /\ lastStep.outcome = "notFound"
    /\ ~Found(documents, lastStep.id)
    /\ documents # {}

\* The title contains the query when the case of letters is ignored.
ContainsIgnoringCase(title, query) ==
    \E i \in 0..(Len(title) - Len(query)) :
        \A k \in 1..Len(query) : LowerChar(title[i + k]) = LowerChar(query[k])

\* C38: searchDocuments(query) resolves with exactly the records whose title
\* contains the query as a case-insensitive substring, each once, in the
\* order getAllDocuments() gives them (updatedAt descending), and leaves the
\* store as it is.
C38_SearchIsFilteredList ==
    [][\A query \in Queries :
          StoreSearch(query)
             => LET found == lastStep'.result
                    matches(doc) == ContainsIgnoringCase(doc.title, query)
                IN /\ {found[i] : i \in DOMAIN found}
                         = {doc \in documents : matches(doc)}
                   /\ Len(found) = Cardinality({doc \in documents : matches(doc)})
                   /\ \A i, j \in DOMAIN found :
                         i < j => found[i].updatedAt >= found[j].updatedAt
                   /\ found = SelectSeq(getAllDocuments(documents), matches)
                   /\ documents' = documents]_vars

\* A search has returned one of two stored records, found through a letter
\* of the other case, and left the other out.
C38_FoundAcrossCase ==
    /\ lastStep.op = "search"
    /\ Len(lastStep.query) > 0
    /\ Cardinality(documents) = 2
    /\ Len(lastStep.result) = 1
    /\ ~includes(lastStep.result[1].title, lastStep.query)

----------------------------------------------------------------------------
(* Renaming next to Save & Open (SpecRename) *)

\* C36: when the updateDocument of a Save & Open on a bound document commits,
\* the record holds the content the handler read from the editor and the
\* title the store held for it just before, a rename committed since the
\* click included.
C36_SaveAndOpenKeepsStoredTitle ==
    [][(ConfirmSaveSucceeds /\ Head(storeCalls).stage = "update")
          => LET call == Head(storeCalls) IN
             /\ getDocument(documents', call.id).content = call.content
             /\ getDocument(documents', call.id).title = getDocument(documents, call.id).title]_vars

----------------------------------------------------------------------------
(* Auto title (SpecTitle) *)

\* The title the text of the buffer gives: its first heading, else its first
\* non-blank line without the leading #s, else 'Untitled'.
TitleOfBuffer(text) ==
    IF FirstHeading(text) # "" THEN FirstHeading(text)
    ELSE IF FirstLine(text) # "" THEN FirstLine(text)
    ELSE "Untitled"

\* C39: the saveDocument call that Save & Open makes for an unbound buffer
\* carries the title derived from the buffer as it is at the click.
C39_AutoTitleIsOfBuffer ==
    [][(HandleConfirmSaveReads /\ ~confirmBusy /\ currentDocId = NoDoc)
          => LET call == storeCalls'[Len(storeCalls')] IN
             /\ call.stage = "add"
             /\ call.content = buffer
             /\ call.title = TitleOfBuffer(buffer)]_vars

====
